---- MODULE Spec2Model ----
(***************************************************************************)
(* The chat view controller of static/js/main.js as a state machine.       *)
(*                                                                         *)
(* Texts (the input value, a query, an answer, a citation, every Source    *)
(* field) are sequences of one-character strings; an HTML element that the *)
(* code inserts into a text ("<br>", a citation button, "<p>") is one      *)
(* token of the sequence, and so is a fixed text of the code ("Unknown     *)
(* Case"); the bullet and the ellipsis are written "&bull;" and "&hellip;".*)
(* An absent (or otherwise falsy) string is the empty sequence: the code   *)
(* only ever tests these values for truthiness.                            *)
(***************************************************************************)
EXTENDS Naturals, Sequences, FiniteSets, TLC

\* Bound of the model: how many sends are accepted in one run.
MaxSends == 2

-----------------------------------------------------------------------------
(* Text helpers                                                            *)

\* What String.prototype.trim and the regular expression class \s remove,
\* within the alphabet of the model.
IsSpace(c) == c \in {" ", "\n"}

IsDigit(c) == c \in {"0", "1", "2", "3", "4", "5", "6", "7", "8", "9"}

RECURSIVE TrimStart(_)
TrimStart(s) ==
  IF s # <<>> /\ IsSpace(Head(s)) THEN TrimStart(Tail(s)) ELSE s

RECURSIVE TrimEnd(_)
TrimEnd(s) ==
  IF s # <<>> /\ IsSpace(s[Len(s)])
    THEN TrimEnd(SubSeq(s, 1, Len(s) - 1))
    ELSE s

\* value.trim()
Trim(s) == TrimEnd(TrimStart(s))

\* text.replace(/\n/g, "<br>")
BrReplace(s) == [i \in 1..Len(s) |-> IF s[i] = "\n" THEN "<br>" ELSE s[i]]

\* parts.join(sep)
RECURSIVE Join(_, _)
Join(parts, sep) ==
  IF parts = <<>> THEN <<>>
  ELSE IF Len(parts) = 1 THEN parts[1]
  ELSE parts[1] \o sep \o Join(Tail(parts), sep)

-----------------------------------------------------------------------------
(* The data of the model: input texts, example prompts, sources, bodies    *)

\* What the user may type into the query box.
Inputs ==
  { <<>>,
    <<" ">>,
    <<" ", "a", "\n", "b", " ">> }

\* The text content of an example-question button.  The three buttons of
\* the empty view share one listener and differ only in their text; the
\* model has the first.
ExampleQuestion1 ==
  <<"\n"," ","W","h","e","n"," ","i","s"," ","a"," ","s","t","a","t","e",
    "m","e","n","t"," ","d","e","f","a","m","a","t","o","r","y"," ","i","n",
    " ","S","o","u","t","h"," ","A","f","r","i","c","a","n"," ","l","a","w",
    "?","\n">>

ExampleQuestions == {ExampleQuestion1}

\* Three Source records of a response.  SrcA has every field, SrcB only a
\* plain citation (a substring of SrcA's neutral citation), SrcC nothing.
SrcA ==
  [case_name        |-> <<"S", " ", "v", " ", "J">>,
   neutral_citation |-> <<"Z", "1">>,
   citation         |-> <<"J", "1">>,
   court            |-> <<"S", "C", "A">>,
   judgment_date    |-> <<"2", "0", "0", "1">>,
   summary          |-> <<"n", "e", "g">>,
   saflii_url       |-> <<"/", "s">>,
   pdf_url          |-> <<"/", "p">>]

SrcB ==
  [case_name        |-> <<>>,
   neutral_citation |-> <<>>,
   citation         |-> <<"Z">>,
   court            |-> <<>>,
   judgment_date    |-> <<>>,
   summary          |-> <<>>,
   saflii_url       |-> <<>>,
   pdf_url          |-> <<"/", "b">>]

SrcC ==
  [case_name        |-> <<"C">>,
   neutral_citation |-> <<>>,
   citation         |-> <<>>,
   court            |-> <<>>,
   judgment_date    |-> <<>>,
   summary          |-> <<>>,
   saflii_url       |-> <<>>,
   pdf_url          |-> <<>>]

\* A field of the parsed JSON body: a well-formed value ("ok": a string or
\* an array), an absent or falsy one, or a truthy value of the wrong type
\* ("malformed": for sources a number, an object or a string).
Ok(v)     == [kind |-> "ok", val |-> v]
Absent    == [kind |-> "absent", val |-> <<>>]
Malformed == [kind |-> "malformed", val |-> <<>>]

AnswerCited == <<"s", " ", "(", "Z", "1", ")">>
AnswerPlain == <<"n", "o">>

\* The JSON bodies the server may answer with.
Bodies ==
  { [answer |-> Ok(AnswerCited), sources |-> Ok(<<SrcA, SrcB>>)],
    [answer |-> Ok(AnswerCited), sources |-> Ok(<<SrcC, SrcA>>)],
    [answer |-> Absent,          sources |-> Absent],
    [answer |-> Ok(AnswerPlain), sources |-> Malformed],
    [answer |-> Absent,          sources |-> Malformed] }

\* A text of n characters (n copies of "q"): a query with no white space.
Repeat(n) == [i \in 1..n |-> "q"]

\* The queries of the one-turn specification: short ones, and ones around
\* the length at which the history preview is cut.
TurnQueries == {Repeat(n) : n \in {1, 59, 60, 61, 62, 75}}

\* SrcA with the given values of its two URL fields.
SrcLinked(saflii, pdf) ==
  [SrcA EXCEPT !.saflii_url = saflii, !.pdf_url = pdf]

\* A source with every combination of present and absent URL fields.
LinkSources ==
  { SrcLinked(saflii, pdf) :
      saflii \in {<<>>, <<"/", "s">>}, pdf \in {<<>>, <<"/", "p">>} }

\* The bodies of the one-turn specification: those of Bodies, and an answer
\* citing one source of LinkSources.
TurnBodies ==
  Bodies \cup
  { [answer |-> Ok(AnswerCited), sources |-> Ok(<<s>>)] : s \in LinkSources }

\* What toLocaleTimeString may give: a wall-clock display string.
Times == {"09:00"}

\* HTTP statuses of a response: fetch resolves for every one of them.
Statuses == {200, 500}

-----------------------------------------------------------------------------
(* Inline citations (applyInlineCitations)                                 *)

\* The button that tags a citation of the source at 0-based position index:
\* data-source-index is index, the label is [index + 1].  One token.
MarkerTokens ==
  << "<button data-source-index=0>[1]</button>",
     "<button data-source-index=1>[2]</button>",
     "<button data-source-index=2>[3]</button>" >>

Marker(index) == MarkerTokens[index + 1]

IsMarker(tok) == \E i \in 1..Len(MarkerTokens) : MarkerTokens[i] = tok

\* parseInt(btn.dataset.sourceIndex, 10)
MarkerIndex(tok) ==
  (CHOOSE i \in 1..Len(MarkerTokens) : MarkerTokens[i] = tok) - 1

\* s.neutral_citation || s.citation
CitationOf(s) ==
  IF s.neutral_citation # <<>> THEN s.neutral_citation ELSE s.citation

\* t holds white space at each of the k positions from p on.
SpacesAt(t, p, k) == \A j \in 0..(k - 1) : IsSpace(t[p + j])

\* t holds the text c at position p.
TextAt(t, p, c) ==
  /\ p + Len(c) - 1 <= Len(t)
  /\ \A j \in 1..Len(c) : t[p + j - 1] = c[j]

\* The negative lookahead's body, \s*\[\d+\], matches at position e of t.
GuardAhead(t, e) ==
  \E sp \in 0..(Len(t) - e) :
    /\ SpacesAt(t, e, sp)
    /\ TextAt(t, e + sp, <<"[">>)
    /\ \E d \in 1..(Len(t) - e - sp) :
         /\ \A j \in 1..d : IsDigit(t[e + sp + j])
         /\ TextAt(t, e + sp + d + 1, <<"]">>)

\* The ways of matching  \(?\s*citation\s*\)?(?!\s*\[\d+\])  at position p
\* of t: <<o1, k1, k2, o2>>, where o1 and o2 say whether the optional
\* parentheses are taken and k1 and k2 how many white-space characters the
\* two \s* take.  escapeRegExp makes the citation c match literally.
MatchWays(t, p, c) ==
  UNION {
    UNION {
      UNION {
        { <<o1, k1, k2, o2>> :
            o2 \in { o \in 0..1 :
                       /\ o = 1 => TextAt(t, p + o1 + k1 + Len(c) + k2, <<")">>)
                       /\ ~GuardAhead(t, p + o1 + k1 + Len(c) + k2 + o) } } :
        k2 \in { k \in 0..(Len(t) - (p + o1 + k1 + Len(c)) + 1) :
                   SpacesAt(t, p + o1 + k1 + Len(c), k) } } :
      k1 \in { k \in 0..(Len(t) - p) :
                 /\ SpacesAt(t, p + o1, k)
                 /\ TextAt(t, p + o1 + k, c) } } :
    o1 \in { o \in 0..1 : o = 1 => TextAt(t, p, <<"(">>) } }

\* The rank of a way in the order in which a backtracking matcher tries
\* them: every quantifier is greedy.
WayRank(t, w) ==
  ((w[1] * (Len(t) + 1) + w[2]) * (Len(t) + 1) + w[3]) * 2 + w[4]

\* The position after the match that starts at p (0 when none starts there).
MatchEnd(t, p, c) ==
  LET ways == MatchWays(t, p, c)
  IN IF ways = {} THEN 0
     ELSE LET w == CHOOSE x \in ways :
                     \A y \in ways : WayRank(t, y) <= WayRank(t, x)
          IN p + w[1] + w[2] + Len(c) + w[3] + w[4]

\* annotated.replace(pattern, rep) with the g flag, scanning from cur.
RECURSIVE ReplaceAll(_, _, _, _)
ReplaceAll(t, cur, c, rep) ==
  LET starts == {p \in cur..Len(t) : MatchEnd(t, p, c) # 0}
  IN IF starts = {} THEN SubSeq(t, cur, Len(t))
     ELSE LET p == CHOOSE x \in starts : \A y \in starts : x <= y
          IN SubSeq(t, cur, p - 1) \o rep
               \o ReplaceAll(t, MatchEnd(t, p, c), c, rep)

\* The body of sources.forEach, for the sources at positions i.. (1-based).
RECURSIVE AnnotateFrom(_, _, _)
AnnotateFrom(annotated, sources, i) ==
  IF i > Len(sources) THEN annotated
  ELSE LET citation == CitationOf(sources[i])
       IN IF citation = <<>>
            THEN AnnotateFrom(annotated, sources, i + 1)
            ELSE AnnotateFrom(
                   ReplaceAll(annotated, 1, citation,
                              citation \o <<" ", Marker(i - 1)>>),
                   sources, i + 1)

\* applyInlineCitations(answerText, sources), sources an array.
applyInlineCitations(answerText, sources) ==
  IF answerText = <<>> \/ Len(sources) = 0
    THEN answerText
    ELSE AnnotateFrom(answerText, sources, 1)

\* applyInlineCitations(rawAnswer, sources) for each body of the model,
\* computed once.
Annotated ==
  [data \in TurnBodies |->
     applyInlineCitations(
       (IF data.answer.kind = "absent" THEN <<>> ELSE data.answer.val),
       (IF data.sources.kind = "ok" THEN data.sources.val ELSE <<>>))]

\* marked.parse(text) for a one-paragraph text without Markdown syntax;
\* inline HTML (the citation buttons) passes through.
MarkedParse(text) ==
  IF text = <<>> THEN <<>> ELSE <<"<p>">> \o text \o <<"</p>">>

-----------------------------------------------------------------------------
(* Rendering: send button, history panel, sources panel, modal, bubbles    *)

\* An updateSendState that looks at the input only.
UpdateSendStateIgnoresFlag(value, thinking) == Len(Trim(value)) = 0

\* updateSendState: the value given to sendBtn.disabled.
UpdateSendState(value, thinking) == Len(Trim(value)) = 0 \/ thinking

\* A preview that already cuts a query of exactly 60 characters.
SnippetCutsAtSixty(query) ==
  IF Len(query) >= 60 THEN SubSeq(query, 1, 60) \o <<"&hellip;">> ELSE query

\* The query preview of a history entry.
Snippet(query) ==
  IF Len(query) > 60 THEN SubSeq(query, 1, 60) \o <<"&hellip;">> ELSE query

\* renderHistory: the content of historyList for the given chatHistory.
RenderHistory(history) ==
  IF Len(history) = 0
    THEN [note |-> "No questions yet.", items |-> <<>>]
    ELSE [note |-> "",
          items |-> [i \in 1..Len(history) |->
                       [label   |-> i,
                        snippet |-> Snippet(history[i].query),
                        time    |-> history[i].time]]]

\* A card that always renders both links, whatever the URL fields hold.
CardLinksAlways(s) ==
  << [text |-> "View on SAFLII", href |-> s.saflii_url],
     [text |-> "Open PDF", href |-> s.pdf_url] >>

\* The <a> elements of a card of the sources panel.
CardLinks(s) ==
  (IF s.saflii_url # <<>>
     THEN << [text |-> "View on SAFLII", href |-> s.saflii_url] >>
     ELSE <<>>)
  \o
  (IF s.pdf_url # <<>>
     THEN << [text |-> "Open PDF", href |-> s.pdf_url] >>
     ELSE <<>>)

\* One card of the sources panel, for the source s at 1-based position n.
SourceCard(s, n) ==
  [badge    |-> n,
   caseName |-> IF s.case_name # <<>> THEN s.case_name
                                      ELSE <<"Unknown Case">>,
   citation |-> CitationOf(s),
   court    |-> s.court,
   date     |-> IF s.judgment_date # <<>>
                  THEN <<" ", "&bull;", " ">> \o s.judgment_date
                  ELSE <<>>,
   summary  |-> s.summary,
   links    |-> CardLinks(s)]

\* A renderSources that never lists a source.
RenderSourcesNothing(sources) == [note |-> "No sources yet.", cards |-> <<>>]

\* renderSources(sources): the content of sourcesList afterwards.  A value
\* that is no array empties the panel and then throws (no forEach).
RenderSources(sources) ==
  IF sources.kind = "malformed"
    THEN [note |-> "", cards |-> <<>>]
  ELSE IF Len(sources.val) = 0
    THEN [note |-> "No sources yet.", cards |-> <<>>]
  ELSE [note |-> "",
        cards |-> [i \in 1..Len(sources.val) |->
                     SourceCard(sources.val[i], i)]]

RenderSourcesThrows(sources) == sources.kind = "malformed"

\* The <a> elements of the modal.
ModalLinks(s) ==
  (IF s.saflii_url # <<>>
     THEN << [text |-> "View on SAFLII", href |-> s.saflii_url] >>
     ELSE <<>>)
  \o
  (IF s.pdf_url # <<>>
     THEN << [text |-> "Open PDF", href |-> s.pdf_url] >>
     ELSE <<>>)

\* openSourceModal(source): the modal afterwards.
OpenSourceModal(source) ==
  [shown |-> TRUE,
   title |-> IF source.case_name # <<>> THEN source.case_name
                                        ELSE <<"Case details">>,
   meta  |-> Join(SelectSeq(<<CitationOf(source), source.court,
                              source.judgment_date>>,
                            LAMBDA x : x # <<>>),
                  <<" ", "&bull;", " ">>),
   body  |-> IF source.summary # <<>>
               THEN source.summary
               ELSE <<"No summary available for this source.">>,
   links |-> ModalLinks(source)]

\* The modal before it is first opened.
ClosedModal ==
  [shown |-> FALSE, title |-> <<>>, meta |-> <<>>, body |-> <<>>,
   links |-> <<>>]

\* data.sources || []  and  data.answer || ""
OrEmpty(v) == IF v.kind = "absent" THEN Ok(<<>>) ELSE v

\* The bubble addUserMessage appends.
UserBubble(text) ==
  [kind |-> "user", html |-> BrReplace(text), sources |-> Absent,
   links |-> {}]

\* The citation buttons of html that addBotMessage gives a click handler:
\* those whose index names an element of sourcesForMessage.
CitationHandlers(html, sourcesForMessage) ==
  IF sourcesForMessage.kind = "ok" /\ Len(sourcesForMessage.val) > 0
    THEN { MarkerIndex(html[i]) :
             i \in { j \in 1..Len(html) :
                       /\ IsMarker(html[j])
                       /\ MarkerIndex(html[j]) < Len(sourcesForMessage.val) } }
    ELSE {}

\* The bubble addBotMessage appends; sources is what its handlers close over.
BotBubble(html, sourcesForMessage) ==
  [kind |-> "bot", html |-> html, sources |-> sourcesForMessage,
   links |-> CitationHandlers(html, sourcesForMessage)]

\* The HTML of the error bubble of the catch block.
ErrorHtml ==
  <<"<span class=text-danger>Error connecting to server. Please try again.</span>">>

\* A send that does not show the user's message.
AddUserMessageNowhere(list, text) == list

AddUserMessage(list, text) == Append(list, UserBubble(text))

AddBotMessage(list, html, sourcesForMessage) ==
  Append(list, BotBubble(html, sourcesForMessage))

\* A catch block that logs the error and shows nothing.
CatchErrorSilently(list) == list

\* The catch block of sendMessage: one error bubble, no sources.
CatchError(list) == AddBotMessage(list, ErrorHtml, Absent)

-----------------------------------------------------------------------------
(* The state                                                               *)

VARIABLES
  queryInput,    \* queryInput.value
  sendDisabled,  \* sendBtn.disabled
  isThinking,    \* the in-flight flag
  loadingShown,  \* loading.style.display is "flex"
  emptyState,    \* the empty view (with its example prompts) is in the page
  messages,      \* the bubbles of messagesDiv, oldest first
  chatHistory,   \* the recorded Exchanges
  historyList,   \* the content of the history panel
  sourcesList,   \* the content of the sources panel
  modal,         \* the content of the source modal
  pending,       \* the calls of sendMessage suspended at their awaits
  nsent,         \* how many sends were accepted so far
  lastEvent      \* the handler that ran last, and how it ended

vars ==
  <<queryInput, sendDisabled, isThinking, loadingShown, emptyState, messages,
    chatHistory, historyList, sourcesList, modal, pending, nsent, lastEvent>>

\* type: which handler; via: which listener called sendMessage; req: the
\* number of the send the call belongs to; status: the HTTP status of its
\* response; cause: why the call ended in the catch block ("" when it did
\* not); msg, idx: the bubble and data-source-index of a clicked button.
Event(type, via, req, status, cause, msg, idx) ==
  [type |-> type, via |-> via, req |-> req, status |-> status,
   cause |-> cause, msg |-> msg, idx |-> idx]

\* The page as loaded: the empty view is shown, nothing was asked, and
\* updateSendState() has run once.
Init ==
  /\ queryInput = <<>>
  /\ sendDisabled = UpdateSendState(<<>>, FALSE)
  /\ isThinking = FALSE
  /\ loadingShown = FALSE
  /\ emptyState = TRUE
  /\ messages = <<>>
  /\ chatHistory = <<>>
  /\ historyList = RenderHistory(<<>>)
  /\ sourcesList = RenderSources(Ok(<<>>))
  /\ modal = ClosedModal
  /\ pending = {}
  /\ nsent = 0
  /\ lastEvent = Event("load", "", 0, 0, "", 0, 0)

-----------------------------------------------------------------------------
(* User events                                                             *)

\* The "input" listener: the user edits the query box.
InputEdit(v) ==
  /\ queryInput' = v
  /\ sendDisabled' = UpdateSendState(v, isThinking)
  /\ lastEvent' = Event("input", "", 0, 0, "", 0, 0)
  /\ UNCHANGED <<isThinking, loadingShown, emptyState, messages, chatHistory,
                 historyList, sourcesList, modal, pending, nsent>>

\* A gate that forgets the in-flight flag: if (!query) return.
SendRejectedOnlyWhenEmpty(query, thinking) == query = <<>>

\* The gate of sendMessage: if (!query || isThinking) return.
SendRejected(query, thinking) == query = <<>> \/ thinking

\* The call of sendMessage that starts with the number id.
NewRequest(id, query) == [id |-> id, query |-> query]

\* sendMessage() up to its first await, called by the listener via when the
\* query box holds value and the send button's disabled is disabledNow.
SendMessage(value, disabledNow, via) ==
  LET query == Trim(value)
  IN /\ IF SendRejected(query, isThinking)
          THEN /\ queryInput' = value
               /\ sendDisabled' = disabledNow
               /\ UNCHANGED <<isThinking, loadingShown, emptyState, messages,
                              pending, nsent>>
          ELSE /\ nsent < MaxSends
               /\ isThinking' = TRUE
               /\ loadingShown' = TRUE
               /\ emptyState' = FALSE
               /\ messages' = AddUserMessage(messages, query)
               /\ queryInput' = <<>>
               /\ sendDisabled' = UpdateSendState(<<>>, TRUE)
               /\ pending' = pending \cup {NewRequest(nsent + 1, query)}
               /\ nsent' = nsent + 1
     /\ lastEvent' = Event("send", via, nsent', 0, "", 0, 0)
     /\ UNCHANGED <<chatHistory, historyList, sourcesList, modal>>

\* The form's "submit" listener, and the "keydown" listener for Enter
\* without Shift: both call sendMessage().
Submit == SendMessage(queryInput, sendDisabled, "submit")

\* The "click" listener of an example-question button of the empty view.
ExampleClick(text) ==
  /\ emptyState
  /\ SendMessage(Trim(text), UpdateSendState(Trim(text), isThinking),
                 "example")

\* A resetConversation without its setThinking(false).
ResetKeepsFlag ==
  /\ messages' = <<>>
  /\ emptyState' = TRUE
  /\ historyList' = RenderHistory(chatHistory)
  /\ sourcesList' = RenderSources(Ok(<<>>))
  /\ queryInput' = <<>>
  /\ sendDisabled' = UpdateSendState(<<>>, isThinking)
  /\ lastEvent' = Event("reset", "", 0, 0, "", 0, 0)
  /\ UNCHANGED <<isThinking, loadingShown, chatHistory, modal, pending,
                 nsent>>

\* resetConversation(), the "click" listener of the new-conversation button.
ResetConversation ==
  /\ messages' = <<>>
  /\ emptyState' = TRUE
  /\ historyList' = RenderHistory(chatHistory)
  /\ sourcesList' = RenderSources(Ok(<<>>))
  /\ queryInput' = <<>>
  /\ isThinking' = FALSE
  /\ loadingShown' = FALSE
  /\ sendDisabled' = UpdateSendState(<<>>, FALSE)
  /\ lastEvent' = Event("reset", "", 0, 0, "", 0, 0)
  /\ UNCHANGED <<chatHistory, modal, pending, nsent>>

\* A listener that looks the index up in the sources of the latest
\* Exchange, the list the sources panel shows, when it has that index.
ClickedSourceOfLatest(m, idx) ==
  LET latest == chatHistory[Len(chatHistory)].sources.val
  IN IF idx + 1 <= Len(latest) THEN latest[idx + 1]
                               ELSE messages[m].sources.val[idx + 1]

\* sourcesForMessage[idx] in the listener of a citation button of bubble m:
\* the array the call of addBotMessage that made the bubble was given.
ClickedSource(m, idx) == messages[m].sources.val[idx + 1]

\* The "click" listener of the citation button idx of the bubble m.
ClickCitation(m, idx) ==
  /\ m \in 1..Len(messages)
  /\ idx \in messages[m].links
  /\ modal' = OpenSourceModal(ClickedSource(m, idx))
  /\ lastEvent' = Event("click", "", 0, 0, "", m, idx)
  /\ UNCHANGED <<queryInput, sendDisabled, isThinking, loadingShown,
                 emptyState, messages, chatHistory, historyList, sourcesList,
                 pending, nsent>>

-----------------------------------------------------------------------------
(* The continuations of sendMessage                                        *)

\* A finally block that hides the loader and leaves the flag as it is.
FinallyKeepsFlag ==
  /\ isThinking' = isThinking
  /\ loadingShown' = FALSE
  /\ sendDisabled' = UpdateSendState(queryInput, isThinking)

\* The finally block: setThinking(false).
Finally ==
  /\ isThinking' = FALSE
  /\ loadingShown' = FALSE
  /\ sendDisabled' = UpdateSendState(queryInput, FALSE)

\* The call r ends in the catch block before it rendered anything.
Fail(r, status, cause) ==
  /\ messages' = CatchError(messages)
  /\ emptyState' = FALSE
  /\ Finally
  /\ pending' = pending \ {r}
  /\ lastEvent' = Event("settled", "", r.id, status, cause, 0, 0)
  /\ UNCHANGED <<queryInput, chatHistory, historyList, sourcesList, modal,
                 nsent>>

\* fetch rejects: a network error, no response.
FetchReject(r) ==
  /\ r \in pending
  /\ Fail(r, 0, "network")

\* fetch resolves with a response of the given status (which the code does
\* not read), and res.json() rejects: the body is not JSON.
JsonReject(r, status) ==
  /\ r \in pending
  /\ Fail(r, status, "parse")

\* The Exchange sendMessage records; req (the number of the send) is not a
\* field of the code's object: it names the send the Exchange came from.
Exchange(r, rawAnswer, sources, time) ==
  [query |-> r.query, answer |-> rawAnswer, sources |-> sources,
   time |-> time, req |-> r.id]

\* A push that keeps only the newest Exchange.
RecordExchangeOverwriting(history, exchange) == <<exchange>>

\* chatHistory.push(exchange)
RecordExchange(history, exchange) == Append(history, exchange)

\* fetch resolves with a response of the given status (which the code does
\* not read), and res.json() resolves with data, at the time time: the rest
\* of the try block.
JsonResolve(r, status, data, time) ==
  /\ r \in pending
  /\ LET sources   == OrEmpty(data.sources)
         rawAnswer == OrEmpty(data.answer).val
     IN IF rawAnswer # <<>> /\ sources.kind = "malformed"
          THEN \* applyInlineCitations throws at sources.forEach
               Fail(r, status, "throw")
          ELSE LET html == MarkedParse(Annotated[data])
                   shown == AddBotMessage(messages, html, sources)
                   history == RecordExchange(chatHistory,
                                Exchange(r, rawAnswer, sources, time))
               IN /\ emptyState' = FALSE
                  /\ chatHistory' = history
                  /\ historyList' = RenderHistory(history)
                  /\ sourcesList' = RenderSources(sources)
                  /\ messages' = IF RenderSourcesThrows(sources)
                                   THEN CatchError(shown)
                                   ELSE shown
                  /\ Finally
                  /\ pending' = pending \ {r}
                  /\ lastEvent' =
                       Event("settled", "", r.id, status,
                             IF RenderSourcesThrows(sources)
                               THEN "late throw" ELSE "",
                             0, 0)
                  /\ UNCHANGED <<queryInput, modal, nsent>>

-----------------------------------------------------------------------------
(* The specification                                                       *)

Next ==
  \/ \E v \in Inputs : InputEdit(v)
  \/ Submit
  \/ \E text \in ExampleQuestions : ExampleClick(text)
  \/ ResetConversation
  \/ \E m \in 1..Len(messages), idx \in 0..(Len(MarkerTokens) - 1) :
       ClickCitation(m, idx)
  \/ \E r \in pending : FetchReject(r)
  \/ \E r \in pending, status \in Statuses : JsonReject(r, status)
  \/ \E r \in pending, status \in Statuses, data \in Bodies, time \in Times :
       JsonResolve(r, status, data, time)

Spec == Init /\ [][Next]_vars

\* The request r settles: its fetch rejects, or its body is read.
Settle(r) ==
  \/ FetchReject(r)
  \/ \E status \in Statuses : JsonReject(r, status)
  \/ \E status \in Statuses, data \in Bodies, time \in Times :
       JsonResolve(r, status, data, time)

\* The specification under which an outstanding request eventually settles.
LiveSpec == Spec /\ WF_vars(\E r \in pending : Settle(r))

\* The page while its first request is outstanding: the query q was typed
\* and sent from the page as loaded.
AfterFirstSend(q) ==
  /\ queryInput = <<>>
  /\ sendDisabled = UpdateSendState(<<>>, TRUE)
  /\ isThinking = TRUE
  /\ loadingShown = TRUE
  /\ emptyState = FALSE
  /\ messages = AddUserMessage(<<>>, q)
  /\ chatHistory = <<>>
  /\ historyList = RenderHistory(<<>>)
  /\ sourcesList = RenderSources(Ok(<<>>))
  /\ modal = ClosedModal
  /\ pending = {NewRequest(1, q)}
  /\ nsent = 1
  /\ lastEvent = Event("send", "submit", 1, 0, "", 0, 0)

TurnInit == \E q \in TurnQueries : AfterFirstSend(q)

\* One turn: the response arrives, then its citation buttons are clicked.
TurnNext ==
  \/ \E r \in pending, status \in Statuses, data \in TurnBodies,
         time \in Times :
       JsonResolve(r, status, data, time)
  \/ \E m \in 1..Len(messages), idx \in 0..(Len(MarkerTokens) - 1) :
       ClickCitation(m, idx)

\* The specification of one turn, over more queries and bodies than Spec.
TurnSpec == TurnInit /\ [][TurnNext]_vars

-----------------------------------------------------------------------------
(* Properties                                                              *)

IsErrorBubble(b) == b.kind = "bot" /\ b.html = ErrorHtml

IsAnswerBubble(b) == b.kind = "bot" /\ b.html # ErrorHtml

LastMessage == messages[Len(messages)]

\* C1: in every reachable state at most one request to /ask is
\* outstanding.
AtMostOneOutstanding == Cardinality(pending) <= 1

\* C2: a send by submit or Enter while the trimmed input is empty or the
\* in-flight flag is set changes nothing: not the message list, the
\* history, the sources panel, the input, the flag or the send button, and
\* it issues no request.
RejectedSendIsNoOp ==
  [][ ( /\ lastEvent'.type = "send"
        /\ lastEvent'.via = "submit"
        /\ (Trim(queryInput) = <<>> \/ isThinking) )
      => UNCHANGED <<queryInput, sendDisabled, isThinking, loadingShown,
                     emptyState, messages, chatHistory, historyList,
                     sourcesList, modal, pending, nsent>> ]_vars

\* A send was just rejected because a request is in flight: the input still
\* holds a query.
RejectedWhileInFlight ==
  /\ lastEvent.type = "send"
  /\ lastEvent.via = "submit"
  /\ isThinking
  /\ Trim(queryInput) # <<>>

\* The query an accepted send carries: the trimmed input for submit and
\* Enter, the trimmed text of the button for an example prompt.
SentQueries(via) ==
  IF via = "submit" THEN {Trim(queryInput)}
                    ELSE {Trim(text) : text \in ExampleQuestions}

\* C3: a send with a non-empty trimmed input and no request in flight
\* appends exactly one user bubble carrying the trimmed query, clears the
\* input, sets the in-flight flag and dispatches exactly one request, in
\* the one step that precedes every completion of that request; the step
\* renders no answer and records no Exchange.
AcceptedSendEffects ==
  [][ ( /\ lastEvent'.type = "send"
        /\ ~isThinking
        /\ lastEvent'.via = "submit" => Trim(queryInput) # <<>> )
      => \E query \in SentQueries(lastEvent'.via) :
           /\ Len(messages') = Len(messages) + 1
           /\ SubSeq(messages', 1, Len(messages)) = messages
           /\ messages'[Len(messages')].kind = "user"
           /\ messages'[Len(messages')].html = BrReplace(query)
           /\ queryInput' = <<>>
           /\ isThinking'
           /\ sendDisabled'
           /\ Cardinality(pending' \ pending) = 1
           /\ pending \subseteq pending'
           /\ \A r \in pending' \ pending :
                r.query = query /\ r.id = lastEvent'.req
           /\ \A r \in pending : r.id # lastEvent'.req
           /\ UNCHANGED <<chatHistory, historyList, sourcesList>> ]_vars

\* A typed query with surrounding white space was just sent.
TypedQuerySent ==
  /\ lastEvent.type = "send"
  /\ lastEvent.via = "submit"
  /\ \E r \in pending : r.id = lastEvent.req /\ r.query = <<"a", "\n", "b">>
  /\ LastMessage.html = <<"a", "<br>", "b">>
  /\ isThinking

\* C4: when a request fails by a network error or an unparseable body,
\* exactly one error bubble is appended, the history and both panels are
\* unchanged, no request is issued, and the in-flight flag is cleared, so
\* that the send button is enabled as soon as the input is non-empty.
FailureEffects ==
  [][ ( /\ lastEvent'.type = "settled"
        /\ lastEvent'.cause \in {"network", "parse"} )
      => /\ Len(messages') = Len(messages) + 1
         /\ SubSeq(messages', 1, Len(messages)) = messages
         /\ IsErrorBubble(messages'[Len(messages')])
         /\ UNCHANGED <<chatHistory, historyList, sourcesList, nsent>>
         /\ pending' \subseteq pending
         /\ Cardinality(pending') = Cardinality(pending) - 1
         /\ ~isThinking'
         /\ sendDisabled' = (Trim(queryInput') = <<>>) ]_vars

\* A request just failed after an earlier one had succeeded with sources.
FailedAfterSuccess ==
  /\ lastEvent.type = "settled"
  /\ lastEvent.cause = "network"
  /\ Len(chatHistory) = 1
  /\ sourcesList.cards # <<>>
  /\ IsErrorBubble(LastMessage)

\* C5: a response with an HTTP error status is handled as a failure: it
\* ends with the error bubble and records no Exchange.
HttpErrorIsFailure ==
  (lastEvent.type = "settled" /\ lastEvent.status >= 400)
    => /\ IsErrorBubble(LastMessage)
       /\ \A i \in 1..Len(chatHistory) : chatHistory[i].req # lastEvent.req

\* C6: right after resetConversation there is no Exchange, the history
\* panel and the sources panel are empty, the input is empty, the send
\* button is disabled and the in-flight flag is clear.
ResetClearsEverything ==
  lastEvent.type = "reset"
    => /\ Len(chatHistory) = 0
       /\ historyList.items = <<>>
       /\ sourcesList.cards = <<>>
       /\ queryInput = <<>>
       /\ sendDisabled
       /\ ~isThinking


\* C7: whenever the in-flight flag is set it is eventually clear again, and
\* it is never set while no request is outstanding.
InFlightFlagClears ==
  /\ isThinking ~> ~isThinking
  /\ [](pending = {} => ~isThinking)

\* Every accepted send has settled and the flag is clear.
AllSettledFlagClear ==
  /\ lastEvent.type = "settled"
  /\ nsent = MaxSends
  /\ pending = {}
  /\ ~isThinking

\* C8: the history panel has one entry per Exchange, labelled 1, 2, ..., n,
\* and the Exchanges are in the order in which their queries were sent.
HistoryChronological ==
  /\ Len(historyList.items) = Len(chatHistory)
  /\ \A i \in 1..Len(historyList.items) : historyList.items[i].label = i
  /\ \A i, j \in 1..Len(chatHistory) :
       i < j => chatHistory[i].req < chatHistory[j].req

\* The Source records of a sources value; a value that is no array has none.
SourcesOf(v) == IF v.kind = "ok" THEN v.val ELSE <<>>

\* The panel lists exactly the sources srcs, in order, numbered from 1.
PanelShows(panel, srcs) ==
  /\ Len(panel.cards) = Len(srcs)
  /\ \A i \in 1..Len(srcs) : panel.cards[i] = SourceCard(srcs[i], i)

AnswerBubbles == {i \in 1..Len(messages) : IsAnswerBubble(messages[i])}

\* The sources panel shows the sources of the last answer in the message
\* list, and none when the list holds no answer.
PanelShowsLastAnswer ==
  IF AnswerBubbles = {}
    THEN sourcesList.cards = <<>>
    ELSE LET last == CHOOSE i \in AnswerBubbles :
                       \A j \in AnswerBubbles : j <= i
         IN PanelShows(sourcesList, SourcesOf(messages[last].sources))

\* C9: a successful round-trip appends exactly one assistant bubble and
\* exactly one Exchange that holds the query, the answer without markers
\* (the bubble shows its annotation), the sources of the bubble and a time,
\* and leaves the sources panel listing exactly those sources; in every
\* state the panel shows the sources of the last rendered answer, or none.
AnswerRecordedAndShown ==
  /\ []PanelShowsLastAnswer
  /\ [][ (lastEvent'.type = "settled" /\ lastEvent'.cause = "")
         => \E r \in pending :
              LET b  == messages'[Len(messages')]
                  ex == chatHistory'[Len(chatHistory')]
              IN /\ r.id = lastEvent'.req
                 /\ pending' = pending \ {r}
                 /\ Len(messages') = Len(messages) + 1
                 /\ SubSeq(messages', 1, Len(messages)) = messages
                 /\ IsAnswerBubble(b)
                 /\ Len(chatHistory') = Len(chatHistory) + 1
                 /\ SubSeq(chatHistory', 1, Len(chatHistory)) = chatHistory
                 /\ ex.query = r.query
                 /\ ex.time \in Times
                 /\ ex.sources = b.sources
                 /\ \A i \in 1..Len(ex.answer) : ~IsMarker(ex.answer[i])
                 /\ b.html = MarkedParse(
                               applyInlineCitations(ex.answer,
                                                    SourcesOf(ex.sources)))
                 /\ PanelShows(sourcesList', SourcesOf(ex.sources)) ]_vars

\* A second answer, with other sources than the first, was just rendered.
SecondAnswerShown ==
  /\ lastEvent.type = "settled"
  /\ lastEvent.cause = ""
  /\ Len(chatHistory) = 2
  /\ chatHistory[1].sources # chatHistory[2].sources
  /\ sourcesList.cards # <<>>
  /\ IsAnswerBubble(LastMessage)

\* C10: a click on the marker [N] of an assistant bubble opens the modal
\* with the N-th source of the list that bubble was rendered with, and no
\* step other than a reset, which removes the bubble, changes a rendered
\* bubble or its list.
ClickOpensOwnSource ==
  /\ [][ lastEvent'.type = "click"
         => /\ lastEvent'.msg \in 1..Len(messages)
            /\ IsAnswerBubble(messages[lastEvent'.msg])
            /\ Marker(lastEvent'.idx) \in
                 {messages[lastEvent'.msg].html[i] :
                    i \in 1..Len(messages[lastEvent'.msg].html)}
            /\ modal' = OpenSourceModal(
                 SourcesOf(messages[lastEvent'.msg].sources)
                   [lastEvent'.idx + 1]) ]_vars
  /\ [][ lastEvent'.type # "reset"
         => /\ Len(messages') >= Len(messages)
            /\ SubSeq(messages', 1, Len(messages)) = messages ]_vars

\* A marker of the first answer was just clicked while the sources panel
\* shows the other sources of a later answer.
ClickedOlderAnswer ==
  /\ lastEvent.type = "click"
  /\ lastEvent.msg < Len(messages)
  /\ IsAnswerBubble(LastMessage)
  /\ LastMessage.sources # messages[lastEvent.msg].sources
  /\ ~PanelShows(sourcesList, SourcesOf(messages[lastEvent.msg].sources))
  /\ modal.shown

\* The annotation of the answer of a recorded Exchange with its sources:
\* what its bubble shows.
AnnotationOf(ex) == applyInlineCitations(ex.answer, SourcesOf(ex.sources))

\* C11: annotating an already annotated answer again, with the same
\* sources, inserts no further marker: the second result is the first.
AnnotationIdempotent ==
  \A i \in 1..Len(chatHistory) :
    applyInlineCitations(AnnotationOf(chatHistory[i]),
                         SourcesOf(chatHistory[i].sources))
      = AnnotationOf(chatHistory[i])

\* The sources the sources panel lists: those of the last answer bubble.
ShownSources ==
  IF AnswerBubbles = {}
    THEN <<>>
    ELSE LET last == CHOOSE i \in AnswerBubbles :
                       \A j \in AnswerBubbles : j <= i
         IN SourcesOf(messages[last].sources)

\* The source whose citation button was clicked last.
OpenedSource == SourcesOf(messages[lastEvent.msg].sources)[lastEvent.idx + 1]

\* C12: an absent field of a Source (case name, citation, court, judgment
\* date, summary) shows as nothing, in its card of the sources panel and in
\* the modal: no text stands in for it.
AbsentFieldsOmitted ==
  /\ \A i \in 1..Len(sourcesList.cards) :
       i <= Len(ShownSources) =>
         LET s    == ShownSources[i]
             card == sourcesList.cards[i]
         IN /\ s.case_name = <<>> => card.caseName = <<>>
            /\ CitationOf(s) = <<>> => card.citation = <<>>
            /\ s.court = <<>> => card.court = <<>>
            /\ s.judgment_date = <<>> => card.date = <<>>
            /\ s.summary = <<>> => card.summary = <<>>
  /\ lastEvent.type = "click" =>
       /\ OpenedSource.case_name = <<>> => modal.title = <<>>
       /\ OpenedSource.summary = <<>> => modal.body = <<>>
       /\ ( /\ CitationOf(OpenedSource) = <<>>
            /\ OpenedSource.court = <<>>
            /\ OpenedSource.judgment_date = <<>> ) => modal.meta = <<>>

\* C13: whenever a JSON body was read, whatever its answer and sources
\* fields hold (absent or of the wrong type counting as empty), the turn
\* ends as a success: its last bubble is the assistant's answer, not the
\* error bubble, and its Exchange is recorded.
MalformedFieldsAsEmpty ==
  (lastEvent.type = "settled" /\ lastEvent.cause \notin {"network", "parse"})
    => /\ IsAnswerBubble(LastMessage)
       /\ \E i \in 1..Len(chatHistory) : chatHistory[i].req = lastEvent.req

\* C14: every step other than a reset (a send, a rejected send, a
\* response, a failure, an input edit, a marker click) leaves the recorded
\* Exchanges as they are: the history before the step is a prefix of the
\* history after it.
HistoryOnlyGrows ==
  [][ lastEvent'.type # "reset"
      => /\ Len(chatHistory') >= Len(chatHistory)
         /\ SubSeq(chatHistory', 1, Len(chatHistory)) = chatHistory ]_vars

\* A second Exchange was just recorded after the first.
SecondExchangeAppended ==
  /\ lastEvent.type = "settled"
  /\ Len(chatHistory) = 2
  /\ chatHistory[2].req = lastEvent.req
  /\ chatHistory[1].req # lastEvent.req

\* C15: while the empty view is displayed the in-flight flag is clear, so
\* the gate rejects no click on an example prompt; and every such click is
\* made on the empty view and is an accepted send of exactly the prompt's
\* trimmed text: one user bubble with it and one request with it.
ExampleClickSends ==
  /\ [](emptyState => ~isThinking)
  /\ [][ (lastEvent'.type = "send" /\ lastEvent'.via = "example")
         => /\ emptyState
            /\ \E text \in ExampleQuestions :
                 /\ Trim(text) # <<>>
                 /\ messages' = Append(messages,
                                  [kind |-> "user",
                                   html |-> BrReplace(Trim(text)),
                                   sources |-> Absent, links |-> {}])
                 /\ Cardinality(pending' \ pending) = 1
                 /\ pending \subseteq pending'
                 /\ \A r \in pending' \ pending : r.query = Trim(text)
            /\ nsent' = nsent + 1
            /\ isThinking'
            /\ ~emptyState'
            /\ queryInput' = <<>> ]_vars

\* An example prompt was just clicked on the empty view of a new
\* conversation, while the request of the old one is still outstanding.
ExampleSentAfterReset ==
  /\ lastEvent.type = "send"
  /\ lastEvent.via = "example"
  /\ Cardinality(pending) = 2
  /\ Len(messages) = 1
  /\ LastMessage.html = Trim(ExampleQuestion1)

\* The links of the sequence links whose text is text.
LinksNamed(links, text) == {k \in 1..Len(links) : links[k].text = text}

\* links holds a 'view original' link (to saflii_url) exactly if s has a
\* saflii_url, an 'open document' link (to pdf_url) exactly if s has a
\* pdf_url, and no other link.
LinksMatchUrls(links, s) ==
  /\ Cardinality(LinksNamed(links, "View on SAFLII"))
       = (IF s.saflii_url # <<>> THEN 1 ELSE 0)
  /\ Cardinality(LinksNamed(links, "Open PDF"))
       = (IF s.pdf_url # <<>> THEN 1 ELSE 0)
  /\ \A k \in 1..Len(links) :
       \/ links[k].text = "View on SAFLII" /\ links[k].href = s.saflii_url
       \/ links[k].text = "Open PDF" /\ links[k].href = s.pdf_url

\* C16: every card of the sources panel, and the modal opened for a
\* source, holds a 'view original' link if and only if the source has a
\* saflii_url and an 'open document' link if and only if it has a pdf_url;
\* a source with neither has no link element.
LinksIffUrls ==
  /\ Len(sourcesList.cards) = Len(ShownSources)
  /\ \A i \in 1..Len(sourcesList.cards) :
       LinksMatchUrls(sourcesList.cards[i].links, ShownSources[i])
  /\ lastEvent.type = "click" => LinksMatchUrls(modal.links, OpenedSource)

\* The marker of a source without any URL was just clicked: its card and
\* the modal hold no link.
OpenedSourceWithoutUrls ==
  /\ lastEvent.type = "click"
  /\ OpenedSource.saflii_url = <<>>
  /\ OpenedSource.pdf_url = <<>>
  /\ modal.shown
  /\ modal.links = <<>>
  /\ Len(sourcesList.cards) = 1
  /\ sourcesList.cards[1].links = <<>>

\* C17: the preview of an Exchange in the history panel is the whole query
\* when the query has at most 60 characters, and otherwise its first 60
\* characters followed by one ellipsis.
PreviewCutAtSixty ==
  /\ Len(historyList.items) = Len(chatHistory)
  /\ \A i \in 1..Len(historyList.items) :
       LET query   == chatHistory[i].query
           preview == historyList.items[i].snippet
       IN IF Len(query) <= 60
            THEN preview = query
            ELSE /\ Len(preview) = 61
                 /\ \A k \in 1..60 : preview[k] = query[k]
                 /\ preview[61] = "&hellip;"

\* The history panel lists a query of 61 characters, cut.
LongQueryListed ==
  /\ Len(chatHistory) = 1
  /\ Len(chatHistory[1].query) = 61
  /\ Len(historyList.items) = 1
  /\ Len(historyList.items[1].snippet) = 61
  /\ historyList.items[1].snippet[61] = "&hellip;"

\* The places <<first, last>> of the text t that hold the citation of a
\* source of sources.
CitationSpans(t, sources) ==
  { sp \in (1..Len(t)) \X (1..Len(t)) :
      \E i \in 1..Len(sources) :
        /\ CitationOf(sources[i]) # <<>>
        /\ sp[2] = sp[1] + Len(CitationOf(sources[i])) - 1
        /\ TextAt(t, sp[1], CitationOf(sources[i])) }

\* The citation occurrences of t: its spans, those that lie in or overlap
\* a span that starts earlier, or a longer one that starts at the same
\* place, counting with that span.
CitationOccurrences(t, sources) ==
  { sp \in CitationSpans(t, sources) :
      ~ \E other \in CitationSpans(t, sources) :
          /\ other # sp
          /\ other[1] <= sp[1]
          /\ sp[1] <= other[2]
          /\ (other[1] = sp[1] => other[2] > sp[2]) }

\* How many citation markers the text t holds.
MarkerCount(t) == Cardinality({k \in 1..Len(t) : IsMarker(t[k])})

\* C18: every citation occurrence of an answer ends up with exactly one
\* marker, also when the citation of a later source is part of the
\* citation of an earlier one: the annotated answer holds as many markers
\* as the answer holds citation occurrences.
OneMarkerPerOccurrence ==
  \A i \in 1..Len(chatHistory) :
    MarkerCount(AnnotationOf(chatHistory[i]))
      = Cardinality(CitationOccurrences(chatHistory[i].answer,
                                        SourcesOf(chatHistory[i].sources)))

\* In the annotation out of the answer t with sources: every marker has
\* the index i of a source with a citation and stands right after that
\* citation and a space, and every source whose citation occurs in t has
\* its marker.
MarkersFollowCitations(t, sources, out) ==
  /\ \A k \in 1..Len(out) :
       IsMarker(out[k]) =>
         LET i == MarkerIndex(out[k])
         IN /\ i < Len(sources)
            /\ CitationOf(sources[i + 1]) # <<>>
            /\ k > Len(CitationOf(sources[i + 1])) + 1
            /\ TextAt(out, k - Len(CitationOf(sources[i + 1])) - 1,
                      CitationOf(sources[i + 1]) \o <<" ">>)
  /\ \A n \in 1..Len(sources) :
       ( /\ CitationOf(sources[n]) # <<>>
         /\ \E p \in 1..Len(t) : TextAt(t, p, CitationOf(sources[n])) )
       => \E k \in 1..Len(out) : out[k] = Marker(n - 1)

\* C19: in the annotation of every answer, the occurrences of the citation
\* of the source at 0-based position i are replaced by the citation
\* followed by the marker of index i, labelled [i + 1]; sources without a
\* citation get no marker and shift no number, and the card with badge [n]
\* of the sources panel is the card of the n-th source.
MarkersNumberSources ==
  /\ \A e \in 1..Len(chatHistory) :
       MarkersFollowCitations(chatHistory[e].answer,
                              SourcesOf(chatHistory[e].sources),
                              AnnotationOf(chatHistory[e]))
  /\ \A n \in 1..Len(sourcesList.cards) :
       /\ sourcesList.cards[n].badge = n
       /\ n <= Len(ShownSources)
       /\ sourcesList.cards[n].citation = CitationOf(ShownSources[n])

\* C20: after every handler (an input edit, a send, an example-prompt
\* click, a response, a failure, a reset) the send button is disabled if
\* and only if the trimmed input is empty or the in-flight flag is set.
SendButtonMatchesState ==
  sendDisabled <=> (Trim(queryInput) = <<>> \/ isThinking)

\* A query was just typed while a request is in flight: the button stays
\* disabled although the input is not empty.
TypedWhileInFlight ==
  /\ lastEvent.type = "input"
  /\ isThinking
  /\ Trim(queryInput) # <<>>
  /\ sendDisabled

\* C21: the message list alternates user bubble, assistant or error
\* bubble, starting with a user bubble; and the bubble a response just
\* added stands right after the user bubble of the query it answers, so
\* that a response to a query sent before a reset adds nothing to the
\* conversation after it.
MessagesAlternate ==
  /\ \A i \in 1..Len(messages) :
       messages[i].kind = (IF i % 2 = 1 THEN "user" ELSE "bot")
  /\ lastEvent.type = "settled" =>
       /\ Len(messages) >= 2
       /\ \A e \in 1..Len(chatHistory) :
            chatHistory[e].req = lastEvent.req =>
              messages[Len(messages) - 1].html
                = BrReplace(chatHistory[e].query)

\* The last part of the statement above, alone: right after a response or
\* a failure the conversation holds the user bubble it answers and the
\* bubble it added, so never fewer than two bubbles.
LateResponseAddsNothing ==
  lastEvent.type = "settled" => Len(messages) >= 2

====
